---- MODULE Spec2Model ----
(***************************************************************************)
(* Provisioning / deprovisioning workflow of the Fabric solution scripts:  *)
(* the four entry scripts (scripts/generate_solution_from_yml_simple.py,   *)
(* the single-file generate_solution_from_yml_simple.py,                   *)
(* scripts/create_feature_workspaces.py,                                   *)
(* scripts/sync_dev_workspaces_from_main.py) and the fabric_core functions *)
(* they call, run against an external system (the fab CLI, the Fabric and  *)
(* Azure REST APIs) that may answer any call with a failure.               *)
(***************************************************************************)
EXTENDS Integers, Sequences, FiniteSets, TLC

\* ------------------------------------------------------------------------
\* Bounds of the model
\* ------------------------------------------------------------------------

\* Number of operations of one behaviour during which the external system
\* may answer other than nominally.
MaxFaults == 1

\* Number of times the entry script is run against the same external system.
MaxRuns == 2

\* ------------------------------------------------------------------------
\* Program constants
\* ------------------------------------------------------------------------

SuspendAttempts == 5
SuspendBackoff == 60
CapacityPropagationDelay == 40
WorkspacePropagationDelay == 5
PermissionDelay == 10

\* ------------------------------------------------------------------------
\* Configuration (the YAML file and the environment of the run)
\* ------------------------------------------------------------------------

Scripts == {"generate", "monolith", "feature", "sync"}

Caps == {"c1", "c2"}
WsNames == {"w1", "w2"}
Principals == {"p1", "p2"}
NoPrincipal == "None"

\* config['capacities']
CapList == <<"c1", "c2">>

\* azure.security_groups: group name -> principal id
security_groups == [g \in {"eng", "ops", "alias"} |->
                      CASE g = "eng" -> "p1" [] g = "ops" -> "p2" [] g = "alias" -> "p1"]

\* config['workspaces']
WsConfig == <<
  [name |-> "w1", capacity |-> "c1", has_permissions |-> TRUE,
   permissions |-> <<[group |-> "eng", role |-> "Admin"], [group |-> "ops", role |-> "Member"]>>,
   connect_to_git_folder |-> TRUE, dev |-> TRUE],
  [name |-> "w2", capacity |-> "c2", has_permissions |-> TRUE,
   permissions |-> <<[group |-> "eng", role |-> "Admin"], [group |-> "alias", role |-> "Admin"],
                     [group |-> "ghost", role |-> "Viewer"]>>,
   connect_to_git_folder |-> TRUE, dev |-> TRUE] >>

\* WORKSPACES_TO_CREATE, default 'processing,datastores'
workspace_types == <<"processing", "datastores">>

\* the feature workspace's name <solution_version>-<branch>-<type>
FeatureWsName(t) == CASE t = "processing" -> "w1" [] t = "datastores" -> "w2" [] OTHER -> "w2"

\* the permissions create_feature_workspaces assigns
FeaturePermissions == <<[group |-> "eng", role |-> "Admin"]>>

\* ------------------------------------------------------------------------
\* The external system
\* ------------------------------------------------------------------------

\* The id the external system assigns to a workspace at creation.
WsId(w) == IF w = "w1" THEN "u1" ELSE "u2"

NoText == [errorCode |-> "", remoteCommitHash |-> "", gitConnectionState |-> "", value |-> <<>>, id |-> ""]

\* One result of run_command: exit code, stdout as a JSON envelope
\* (kind: empty | garbage | array | object) and stdout as text tokens.
Resp(rc, kind, has, sc, text, out) ==
  [rc |-> rc, kind |-> kind, has_status |-> has, status_code |-> sc, text |-> text, out |-> out]

Obj(sc, text) == Resp(0, "object", TRUE, sc, text, <<>>)
Plain(rc, out) == Resp(rc, "garbage", FALSE, 0, NoText, out)

\* How the external system answers when it does not answer nominally.
Faulty(k) ==
  CASE k = "exit"     -> Resp(1, "empty", FALSE, 0, NoText, <<>>)
    [] k = "empty"    -> Resp(0, "empty", FALSE, 0, NoText, <<>>)
    [] k = "garbage"  -> Resp(0, "garbage", FALSE, 0, NoText, <<"txt">>)
    [] k = "array"    -> Resp(0, "array", FALSE, 0, NoText, <<>>)
    [] k = "nostatus" -> Resp(0, "object", FALSE, 0, NoText, <<>>)
    [] OTHER          -> Obj(500, NoText)

\* Without a login every call of the CLI fails.
Eff(ext, k) == IF ext.authed THEN k ELSE "exit"

Answer(resp, ext) == [resp |-> resp, ext |-> ext]

EnvAuthLogin(ext, k) ==
  IF k = "none" THEN Answer(Plain(0, <<>>), [ext EXCEPT !.authed = TRUE])
  ELSE Answer(Plain(1, <<"txt">>), [ext EXCEPT !.authed = FALSE])

EnvCapGet(ext, c, k0) ==
  LET k == Eff(ext, k0) IN
  IF k # "none" THEN Answer(Faulty(k), ext)
  ELSE Answer(Obj(IF ext.cap[c] = "absent" THEN 404 ELSE 200, NoText), ext)

EnvCapPut(ext, c, k0) ==
  LET k == Eff(ext, k0) IN
  IF k # "none" THEN Answer(Faulty(k), ext)
  ELSE Answer(Obj(IF ext.cap[c] = "absent" THEN 201 ELSE 200, NoText),
              [ext EXCEPT !.cap[c] = "active"])

EnvCapResume(ext, c, k0) ==
  LET k == Eff(ext, k0) IN
  IF k # "none" THEN Answer(Faulty(k), ext)
  ELSE CASE ext.cap[c] = "suspended" -> Answer(Obj(202, NoText), [ext EXCEPT !.cap[c] = "active"])
         [] ext.cap[c] = "active"    -> Answer(Obj(409, NoText), ext)
         [] OTHER                    -> Answer(Obj(404, NoText), ext)

EnvCapSuspend(ext, c, k0) ==
  LET k == Eff(ext, k0) IN
  IF k # "none" THEN Answer(Faulty(k), ext)
  ELSE CASE ext.cap[c] = "active"    -> Answer(Obj(202, NoText), [ext EXCEPT !.cap[c] = "suspended"])
         [] ext.cap[c] = "suspended" -> Answer(Obj(409, NoText), ext)
         [] OTHER                    -> Answer(Obj(404, NoText), ext)

\* ------------------------------------------------------------------------
\* Records of what an operation did
\* ------------------------------------------------------------------------

\* One external call: its kind, its target, an argument, the status the
\* caller read from it, the text it printed and what its stdout was as JSON
\* (empty | garbage | array | object).
Call(kind, target, arg, status, out, body) ==
  [kind |-> kind, target |-> target, arg |-> arg, status |-> status, out |-> out, body |-> body]

None == <<>>

\* The outcome of one operation: the calls it issued in order, what it
\* returned (ret for flags, id for identifiers, None = <<>>), the time it
\* slept, whether it raised, and the external system afterwards.
Outcome(calls, ret, id, wait, raised, ext) ==
  [calls |-> calls, ret |-> ret, id |-> id, wait |-> wait, raised |-> raised, ext |-> ext]

\* ------------------------------------------------------------------------
\* fabric_core/utils.py
\* ------------------------------------------------------------------------

\* call_azure_api: the status it returns for a CLI output
call_azure_api(resp) ==
  IF resp.kind = "object"
  THEN (IF resp.has_status THEN resp.status_code ELSE 0)
  ELSE 0

\* ------------------------------------------------------------------------
\* fabric_core/capacity.py
\* ------------------------------------------------------------------------

\* capacity_exists taking every status but 404 for an existing capacity
capacity_exists_unless_404(resp) == call_azure_api(resp) # 404

capacity_exists(resp) == call_azure_api(resp) = 200

\* create_capacity with the propagation wait also taken after the resume
create_capacity_waits_after_resume(ext, capacity_name, f) ==
  LET g == EnvCapGet(ext, capacity_name, f[1])
      cg == Call("cap_get", capacity_name, "", call_azure_api(g.resp), <<>>, g.resp.kind)
  IN IF capacity_exists(g.resp)
     THEN LET r == EnvCapResume(g.ext, capacity_name, f[2])
          IN Outcome(<<cg, Call("cap_resume", capacity_name, "", call_azure_api(r.resp), <<>>, r.resp.kind)>>,
                     "None", None, CapacityPropagationDelay, FALSE, r.ext)
     ELSE LET p == EnvCapPut(g.ext, capacity_name, f[2])
              status == call_azure_api(p.resp)
          IN Outcome(<<cg, Call("cap_put", capacity_name, "", status, <<>>, p.resp.kind)>>,
                     "None", None,
                     IF status \in {200, 201} THEN CapacityPropagationDelay ELSE 0,
                     FALSE, p.ext)

\* create_capacity with the propagation wait taken whatever the PUT returned
create_capacity_always_waits(ext, capacity_name, f) ==
  LET g == EnvCapGet(ext, capacity_name, f[1])
      cg == Call("cap_get", capacity_name, "", call_azure_api(g.resp), <<>>, g.resp.kind)
  IN IF capacity_exists(g.resp)
     THEN LET r == EnvCapResume(g.ext, capacity_name, f[2])
          IN Outcome(<<cg, Call("cap_resume", capacity_name, "", call_azure_api(r.resp), <<>>, r.resp.kind)>>,
                     "None", None, 0, FALSE, r.ext)
     ELSE LET p == EnvCapPut(g.ext, capacity_name, f[2])
              status == call_azure_api(p.resp)
          IN Outcome(<<cg, Call("cap_put", capacity_name, "", status, <<>>, p.resp.kind)>>,
                     "None", None,
                     CapacityPropagationDelay, FALSE, p.ext)

create_capacity(ext, capacity_name, f) ==
  LET g == EnvCapGet(ext, capacity_name, f[1])
      cg == Call("cap_get", capacity_name, "", call_azure_api(g.resp), <<>>, g.resp.kind)
  IN IF capacity_exists(g.resp)
     THEN LET r == EnvCapResume(g.ext, capacity_name, f[2])
          IN Outcome(<<cg, Call("cap_resume", capacity_name, "", call_azure_api(r.resp), <<>>, r.resp.kind)>>,
                     "None", None, 0, FALSE, r.ext)
     ELSE LET p == EnvCapPut(g.ext, capacity_name, f[2])
              status == call_azure_api(p.resp)
          IN Outcome(<<cg, Call("cap_put", capacity_name, "", status, <<>>, p.resp.kind)>>,
                     "None", None,
                     IF status \in {200, 201} THEN CapacityPropagationDelay ELSE 0,
                     FALSE, p.ext)

RECURSIVE suspend_loop(_, _, _, _, _, _)
suspend_loop(ext, capacity_name, f, i, calls, wait) ==
  IF i > SuspendAttempts
  THEN Outcome(calls, "False", None, wait, FALSE, ext)
  ELSE LET s == EnvCapSuspend(ext, capacity_name, f[i])
           status == call_azure_api(s.resp)
           calls2 == Append(calls, Call("cap_suspend", capacity_name, "", status, <<>>, s.resp.kind))
       IN IF status \in {200, 202}
          THEN Outcome(calls2, "True", None, wait, FALSE, s.ext)
          ELSE suspend_loop(s.ext, capacity_name, f, i + 1, calls2, wait + SuspendBackoff)

\* suspend_capacity with a backoff that grows with the attempt number
RECURSIVE suspend_loop_growing_backoff(_, _, _, _, _, _)
suspend_loop_growing_backoff(ext, capacity_name, f, i, calls, wait) ==
  IF i > SuspendAttempts
  THEN Outcome(calls, "False", None, wait, FALSE, ext)
  ELSE LET s == EnvCapSuspend(ext, capacity_name, f[i])
           status == call_azure_api(s.resp)
           calls2 == Append(calls, Call("cap_suspend", capacity_name, "", status, <<>>, s.resp.kind))
       IN IF status \in {200, 202}
          THEN Outcome(calls2, "True", None, wait, FALSE, s.ext)
          ELSE suspend_loop_growing_backoff(s.ext, capacity_name, f, i + 1, calls2, wait + SuspendBackoff * i)

suspend_capacity_growing_backoff(ext, capacity_name, f) ==
  suspend_loop_growing_backoff(ext, capacity_name, f, 1, <<>>, 0)

\* suspend_capacity taking only 200 for a success
RECURSIVE suspend_loop_200_only(_, _, _, _, _, _)
suspend_loop_200_only(ext, capacity_name, f, i, calls, wait) ==
  IF i > SuspendAttempts
  THEN Outcome(calls, "False", None, wait, FALSE, ext)
  ELSE LET s == EnvCapSuspend(ext, capacity_name, f[i])
           status == call_azure_api(s.resp)
           calls2 == Append(calls, Call("cap_suspend", capacity_name, "", status, <<>>, s.resp.kind))
       IN IF status = 200
          THEN Outcome(calls2, "True", None, wait, FALSE, s.ext)
          ELSE suspend_loop_200_only(s.ext, capacity_name, f, i + 1, calls2, wait + SuspendBackoff)

suspend_capacity_200_only(ext, capacity_name, f) ==
  suspend_loop_200_only(ext, capacity_name, f, 1, <<>>, 0)

suspend_capacity(ext, capacity_name, f) ==
  suspend_loop(ext, capacity_name, f, 1, <<>>, 0)

\* ------------------------------------------------------------------------
\* The external system: workspaces and role assignments
\* ------------------------------------------------------------------------

\* The workspace an id names ("?" when it names none).
WsOfId(id) == IF id = <<"u1">> THEN "w1" ELSE IF id = <<"u2">> THEN "w2" ELSE "?"

Known(ext, w) == w \in WsNames /\ ext.ws[w]

\* fab ls <name>.Workspace
EnvLs(ext, w, k0) ==
  LET k == Eff(ext, k0) IN
  IF k # "none" THEN Answer(Plain(1, <<"txt">>), ext)
  ELSE Answer(Plain(IF ext.ws[w] THEN 0 ELSE 1, <<"txt">>), ext)

\* fab create <name>.Workspace -P capacityname=<capacity>
EnvCreate(ext, w, c, k0) ==
  LET k == Eff(ext, k0) IN
  IF k = "none" /\ ~ext.ws[w] /\ ext.cap[c] = "active"
  THEN Answer(Plain(0, <<"txt">>), [ext EXCEPT !.ws[w] = TRUE])
  ELSE Answer(Plain(1, <<"txt">>), ext)

\* An id as the CLI may print it in upper case.
Upper(u) == IF u = "u1" THEN "U1" ELSE IF u = "u2" THEN "U2" ELSE u

\* fab get <name>.Workspace -q id
EnvGetId(ext, w, k0) ==
  LET k == Eff(ext, k0) IN
  CASE k = "none" /\ ext.ws[w] -> Answer(Plain(0, <<WsId(w), "sp">>), ext)
    [] k = "blank"             -> Answer(Plain(0, <<"sp">>), ext)
    [] k = "noisy"             -> Answer(Plain(0, <<"sp", "txt", WsId(w), "sp">>), ext)
    [] k = "uuid_in_error"     -> Answer(Plain(1, <<"txt", Upper(WsId(w)), "txt", "u2">>), ext)
    [] OTHER                   -> Answer(Plain(1, <<"txt">>), ext)

\* The roleAssignments listing of a workspace's role store.
Listing(store) ==
  LET e(p) == IF store[p] = "none" THEN <<>>
              ELSE <<[has_principal |-> TRUE, pid |-> p, role |-> store[p]]>>
  IN e("p1") \o e("p2")

\* fab api -X get workspaces/<id>/roleAssignments
EnvRolesGet(ext, w, k0) ==
  LET k == Eff(ext, k0) IN
  CASE k = "none" /\ Known(ext, w) ->
         Answer(Obj(200, [NoText EXCEPT !.value = Listing(ext.roles[w])]), ext)
    [] k = "none" -> Answer(Obj(404, NoText), ext)
    [] k = "badentry" ->
         Answer(Obj(200, [NoText EXCEPT !.value =
                  <<[has_principal |-> FALSE, pid |-> "", role |-> "Admin"]>>]), ext)
    [] OTHER -> Answer(Faulty(k), ext)

\* fab api -X post workspaces/<id>/roleAssignments
EnvRolePost(ext, w, pid, role, k0) ==
  LET k == Eff(ext, k0) IN
  CASE k # "none"          -> Answer(Faulty(k), ext)
    [] ~Known(ext, w)      -> Answer(Obj(404, NoText), ext)
    [] pid \notin Principals -> Answer(Obj(400, NoText), ext)
    [] ext.roles[w][pid] # "none" -> Answer(Obj(409, NoText), ext)
    [] OTHER -> Answer(Obj(201, NoText), [ext EXCEPT !.roles[w][pid] = role])

\* ------------------------------------------------------------------------
\* fabric_core/workspace.py
\* ------------------------------------------------------------------------

workspace_exists(resp) == resp.rc = 0

\* str.strip(): the text without its leading and trailing whitespace
RECURSIVE lstrip(_)
lstrip(s) == IF s # <<>> /\ Head(s) = "sp" THEN lstrip(Tail(s)) ELSE s
RECURSIVE rstrip(_)
rstrip(s) == IF s # <<>> /\ s[Len(s)] = "sp" THEN rstrip(SubSeq(s, 1, Len(s) - 1)) ELSE s
strip(s) == rstrip(lstrip(s))

\* str.lower()
lower(s) == [i \in 1..Len(s) |-> IF s[i] = "U1" THEN "u1" ELSE IF s[i] = "U2" THEN "u2" ELSE s[i]]

\* re.search of the 8-4-4-4-12 lower-case hex pattern: the first match, or None
uuid_search(s) ==
  LET hits == {i \in 1..Len(s) : s[i] \in {"u1", "u2"}}
  IN IF hits = {} THEN None
     ELSE <<s[CHOOSE i \in hits : \A j \in hits : i <= j]>>

\* get_workspace_id returning the output as printed, not stripped
get_workspace_id_unstripped(resp) ==
  IF resp.rc = 0 /\ strip(resp.out) # <<>>
  THEN resp.out
  ELSE uuid_search(lower(resp.out))

\* get_workspace_id taking the printed text without looking at the exit code
get_workspace_id_ignores_exit(resp) ==
  IF strip(resp.out) # <<>>
  THEN strip(resp.out)
  ELSE uuid_search(lower(resp.out))

get_workspace_id(resp) ==
  IF resp.rc = 0 /\ strip(resp.out) # <<>>
  THEN strip(resp.out)
  ELSE uuid_search(lower(resp.out))

create_workspace(ext, workspace_config, f) ==
  LET workspace_name == workspace_config.name
      l == EnvLs(ext, workspace_name, f[1])
      cl == Call("ws_ls", workspace_name, "", l.resp.rc, l.resp.out, l.resp.kind)
  IN IF workspace_exists(l.resp)
     THEN LET g == EnvGetId(l.ext, workspace_name, f[3])
          IN Outcome(<<cl, Call("ws_get", workspace_name, "", g.resp.rc, g.resp.out, g.resp.kind)>>,
                     "None", get_workspace_id(g.resp), 0, FALSE, g.ext)
     ELSE LET c == EnvCreate(l.ext, workspace_name, workspace_config.capacity, f[2])
              cc == Call("ws_create", workspace_name, workspace_config.capacity, c.resp.rc, c.resp.out, c.resp.kind)
          IN IF c.resp.rc # 0
             THEN Outcome(<<cl, cc>>, "None", None, 0, FALSE, c.ext)
             ELSE LET g == EnvGetId(c.ext, workspace_name, f[3])
                  IN Outcome(<<cl, cc, Call("ws_get", workspace_name, "", g.resp.rc, g.resp.out, g.resp.kind)>>,
                             "None", get_workspace_id(g.resp), WorkspacePropagationDelay, FALSE, g.ext)

\* The dict get_workspace_role_assignments builds from the listing:
\* principal id -> role, a later entry replacing an earlier one.
RoleDict(entries) ==
  [p \in {entries[i].pid : i \in 1..Len(entries)} |->
     entries[CHOOSE i \in 1..Len(entries) :
               /\ entries[i].pid = p
               /\ \A j \in 1..Len(entries) : entries[j].pid = p => j <= i].role]

EmptyDict == [p \in {} |-> "none"]

\* get_workspace_role_assignments: [raised, dict] for a CLI result
get_workspace_role_assignments(resp) ==
  CASE resp.rc # 0 -> [raised |-> FALSE, dict |-> EmptyDict]
    [] resp.kind \in {"empty", "garbage"} -> [raised |-> FALSE, dict |-> EmptyDict]
    [] resp.kind = "array" -> [raised |-> TRUE, dict |-> EmptyDict]
    [] resp.has_status /\ resp.status_code = 200 ->
         IF \E i \in 1..Len(resp.text.value) : ~resp.text.value[i].has_principal
         THEN [raised |-> FALSE, dict |-> EmptyDict]
         ELSE [raised |-> FALSE, dict |-> RoleDict(resp.text.value)]
    [] OTHER -> [raised |-> FALSE, dict |-> EmptyDict]

\* security_groups.get(group)
GroupId(sg, group) == IF group \in DOMAIN sg THEN sg[group] ELSE NoPrincipal

\* The status a caller reads from a JSON envelope (0: none to read).
StatusOf(resp) == IF resp.kind = "object" /\ resp.has_status THEN resp.status_code ELSE 0

RECURSIVE assign_loop(_, _, _, _, _, _, _, _)
assign_loop(ext, workspace_id, permissions, sg, existing_assignments, f, i, calls) ==
  IF i > Len(permissions)
  THEN Outcome(calls, "None", None, PermissionDelay, FALSE, ext)
  ELSE LET permission == permissions[i]
           group_id == GroupId(sg, permission.group)
           desired_role == permission.role
       IN IF group_id \in DOMAIN existing_assignments
          THEN assign_loop(ext, workspace_id, permissions, sg, existing_assignments, f, i + 1, calls)
          ELSE LET a == EnvRolePost(ext, WsOfId(workspace_id), group_id, desired_role, f[i + 1])
                   calls2 == Append(calls, Call("role_post", WsOfId(workspace_id), group_id,
                                                StatusOf(a.resp), <<desired_role>>, a.resp.kind))
               IN IF a.resp.kind = "array"
                  THEN Outcome(calls2, "None", None, PermissionDelay, TRUE, a.ext)
                  ELSE assign_loop(a.ext, workspace_id, permissions, sg, existing_assignments,
                                   f, i + 1, calls2)

\* assign_permissions posting the desired role over a different existing one
RECURSIVE assign_loop_overwrites(_, _, _, _, _, _, _, _)
assign_loop_overwrites(ext, workspace_id, permissions, sg, existing_assignments, f, i, calls) ==
  IF i > Len(permissions)
  THEN Outcome(calls, "None", None, PermissionDelay, FALSE, ext)
  ELSE LET permission == permissions[i]
           group_id == GroupId(sg, permission.group)
           desired_role == permission.role
       IN IF group_id \in DOMAIN existing_assignments /\ existing_assignments[group_id] = desired_role
          THEN assign_loop_overwrites(ext, workspace_id, permissions, sg, existing_assignments, f, i + 1, calls)
          ELSE LET a == EnvRolePost(ext, WsOfId(workspace_id), group_id, desired_role, f[i + 1])
                   calls2 == Append(calls, Call("role_post", WsOfId(workspace_id), group_id,
                                                StatusOf(a.resp), <<desired_role>>, a.resp.kind))
               IN IF a.resp.kind = "array"
                  THEN Outcome(calls2, "None", None, PermissionDelay, TRUE, a.ext)
                  ELSE assign_loop_overwrites(a.ext, workspace_id, permissions, sg, existing_assignments,
                                   f, i + 1, calls2)

assign_permissions_overwrites(ext, workspace_id, permissions, sg, f) ==
  LET r == EnvRolesGet(ext, WsOfId(workspace_id), f[1])
      cr == Call("role_get", WsOfId(workspace_id), "", StatusOf(r.resp),
                 [i \in 1..Len(r.resp.text.value) |->
                    IF r.resp.text.value[i].has_principal THEN r.resp.text.value[i].pid ELSE "?"], r.resp.kind)
      existing == get_workspace_role_assignments(r.resp)
  IN IF existing.raised
     THEN Outcome(<<cr>>, "None", None, PermissionDelay, TRUE, r.ext)
     ELSE assign_loop_overwrites(r.ext, workspace_id, permissions, sg, existing.dict, f, 1, <<cr>>)

assign_permissions(ext, workspace_id, permissions, sg, f) ==
  LET r == EnvRolesGet(ext, WsOfId(workspace_id), f[1])
      cr == Call("role_get", WsOfId(workspace_id), "", StatusOf(r.resp),
                 [i \in 1..Len(r.resp.text.value) |->
                    IF r.resp.text.value[i].has_principal THEN r.resp.text.value[i].pid ELSE "?"], r.resp.kind)
      existing == get_workspace_role_assignments(r.resp)
  IN IF existing.raised
     THEN Outcome(<<cr>>, "None", None, PermissionDelay, TRUE, r.ext)
     ELSE assign_loop(r.ext, workspace_id, permissions, sg, existing.dict, f, 1, <<cr>>)

\* ------------------------------------------------------------------------
\* The external system: connections and git bindings
\* ------------------------------------------------------------------------

\* f"GitHub-{owner_name}-{repo_name}" for the configured repository
ComputedName == "GitHub-org-repo"

ConnId(name) ==
  CASE name = ComputedName -> "kc" [] name = "test_connection" -> "kt" [] OTHER -> "ko"

ConnNames(ext) == {ext.conns[i] : i \in 1..Len(ext.conns)}

\* fab api -X get connections
EnvConnList(ext, k0) ==
  LET k == Eff(ext, k0) IN
  IF k # "none" THEN Answer(Faulty(k), ext)
  ELSE Answer(Obj(200, [NoText EXCEPT !.value =
                [i \in 1..Len(ext.conns) |->
                   [displayName |-> ext.conns[i], id |-> ConnId(ext.conns[i])]]]), ext)

\* fab api -X post connections
EnvConnCreate(ext, name, k0) ==
  LET k == Eff(ext, k0) IN
  CASE k # "none" -> Answer(Faulty(k), ext)
    [] name \in ConnNames(ext) -> Answer(Obj(409, NoText), ext)
    [] OTHER -> Answer(Obj(201, [NoText EXCEPT !.id = ConnId(name)]),
                       [ext EXCEPT !.conns = Append(@, name)])

\* fab api -X get workspaces/<id>/git/status
EnvGitStatus(ext, w, k0) ==
  LET k == Eff(ext, k0)
      bound == [NoText EXCEPT !.remoteCommitHash = "h1", !.gitConnectionState = "ConnectedAndInitialized"]
  IN CASE k = "nohash"    -> Answer(Obj(200, NoText), ext)
       [] k = "stateonly" -> Answer(Obj(200, [NoText EXCEPT !.gitConnectionState = "Connected"]), ext)
       [] k # "none"      -> Answer(Faulty(k), ext)
       [] ~Known(ext, w)  -> Answer(Obj(404, NoText), ext)
       [] ext.git[w] = "unbound" ->
            Answer(Obj(400, [NoText EXCEPT !.errorCode = "WorkspaceNotConnectedToGit"]), ext)
       [] ext.git[w] = "connected" ->
            Answer(Obj(400, [NoText EXCEPT !.errorCode = "WorkspaceGitConnectionNotInitialized"]), ext)
       [] OTHER -> Answer(Obj(200, bound), ext)

\* fab api -X post workspaces/<id>/git/connect
EnvGitConnect(ext, w, connection_id, k0) ==
  LET k == Eff(ext, k0) IN
  CASE k # "none" -> Answer(Faulty(k), ext)
    [] ~Known(ext, w) -> Answer(Obj(404, NoText), ext)
    [] connection_id \notin {<<ConnId(n)>> : n \in ConnNames(ext)} -> Answer(Obj(400, NoText), ext)
    [] ext.git[w] = "unbound" -> Answer(Obj(200, NoText), [ext EXCEPT !.git[w] = "connected"])
    [] OTHER -> Answer(Obj(409, NoText), ext)

\* fab api -X post workspaces/<id>/git/initializeConnection
EnvGitInit(ext, w, k0) ==
  LET k == Eff(ext, k0) IN
  CASE k # "none" -> Answer(Faulty(k), ext)
    [] Known(ext, w) /\ ext.git[w] = "connected" ->
         Answer(Obj(200, NoText), [ext EXCEPT !.git[w] = "initialized"])
    [] OTHER -> Answer(Obj(400, NoText), ext)

\* fab api -X post workspaces/<id>/git/updateFromGit
EnvGitUpdate(ext, w, hash, k0) ==
  LET k == Eff(ext, k0) IN
  CASE k = "accepted_empty" /\ Known(ext, w) /\ ext.git[w] \in {"initialized", "synced"} /\ hash = "h1" ->
         Answer(Resp(0, "empty", FALSE, 0, NoText, <<>>), [ext EXCEPT !.git[w] = "synced"])
    [] k \notin {"none", "accepted_empty"} -> Answer(Faulty(k), ext)
    [] Known(ext, w) /\ ext.git[w] \in {"initialized", "synced"} /\ hash = "h1" ->
         Answer(Obj(202, NoText), [ext EXCEPT !.git[w] = "synced"])
    [] OTHER -> Answer(Obj(400, NoText), ext)

\* ------------------------------------------------------------------------
\* fabric_core/git_integration.py
\* ------------------------------------------------------------------------

\* json.loads(stdout) raises, or the .get on its result does
Unloadable(resp) == resp.kind \in {"empty", "garbage", "array"}

\* The first connection of the listing with this display name (0: none).
FirstNamed(value, name) ==
  LET hits == {i \in 1..Len(value) : value[i].displayName = name}
  IN IF hits = {} THEN 0 ELSE CHOOSE i \in hits : \A j \in hits : i <= j

\* get_or_create_git_connection, matching the listing on display name `match`
\* and creating under the computed name
connection_lookup(ext, match, f) ==
  LET connection_name == ComputedName
      l == EnvConnList(ext, f[1])
      cl == Call("conn_list", "", "", StatusOf(l.resp), <<>>, l.resp.kind)
  IN IF Unloadable(l.resp)
     THEN Outcome(<<cl>>, "None", None, 0, TRUE, l.ext)
     ELSE LET value == IF StatusOf(l.resp) = 200 /\ l.resp.has_status THEN l.resp.text.value ELSE <<>>
              hit == FirstNamed(value, match)
          IN IF hit # 0
             THEN Outcome(<<cl>>, "None", <<value[hit].id>>, 0, FALSE, l.ext)
             ELSE LET c == EnvConnCreate(l.ext, connection_name, f[2])
                      cc == Call("conn_create", "", connection_name, StatusOf(c.resp), <<>>, c.resp.kind)
                  IN IF Unloadable(c.resp)
                     THEN Outcome(<<cl, cc>>, "None", None, 0, TRUE, c.ext)
                     ELSE IF c.resp.has_status /\ c.resp.status_code \in {200, 201}
                          THEN Outcome(<<cl, cc>>, "None",
                                       IF c.resp.text.id = "" THEN None ELSE <<c.resp.text.id>>,
                                       0, FALSE, c.ext)
                          ELSE Outcome(<<cl, cc>>, "None", None, 0, FALSE, c.ext)

get_or_create_git_connection(ext, f) == connection_lookup(ext, "test_connection", f)

GitStatusCall(w, resp) ==
  Call("git_status", w, resp.text.errorCode, StatusOf(resp),
       <<resp.text.remoteCommitHash, resp.text.gitConnectionState>>, resp.kind)

\* the connect call and the reading of its answer (lines 198-221)
connect_call(ext, workspace_id, connection_id, f, calls) ==
  LET c == EnvGitConnect(ext, WsOfId(workspace_id), connection_id, f[2])
      calls2 == Append(calls, Call("git_connect", WsOfId(workspace_id), "", StatusOf(c.resp), connection_id, c.resp.kind))
  IN CASE c.resp.kind \in {"empty", "garbage"} -> Outcome(calls2, "False", None, 0, FALSE, c.ext)
       [] c.resp.kind = "array" -> Outcome(calls2, "None", None, 0, TRUE, c.ext)
       [] c.resp.has_status /\ c.resp.status_code \in {200, 201} ->
            Outcome(calls2, "True", None, 0, FALSE, c.ext)
       [] OTHER -> Outcome(calls2, "False", None, 0, FALSE, c.ext)

connect_workspace_to_git(ext, workspace_id, connection_id, f) ==
  LET s == EnvGitStatus(ext, WsOfId(workspace_id), f[1])
      cs == GitStatusCall(WsOfId(workspace_id), s.resp)
  IN CASE s.resp.kind = "array" -> Outcome(<<cs>>, "None", None, 0, TRUE, s.ext)
       [] /\ s.resp.kind = "object"
          /\ s.resp.has_status /\ s.resp.status_code = 200
          /\ (s.resp.text.gitConnectionState # "" \/ s.resp.text.remoteCommitHash # "") ->
            Outcome(<<cs>>, "True", None, 0, FALSE, s.ext)
       [] OTHER -> connect_call(s.ext, workspace_id, connection_id, f, <<cs>>)

\* the updateFromGit call and the reading of its answer (lines 120-148)
update_call(ext, workspace_id, remote_commit_hash, f, calls) ==
  LET u == EnvGitUpdate(ext, WsOfId(workspace_id), remote_commit_hash, f[4])
      calls2 == Append(calls, Call("git_update", WsOfId(workspace_id), remote_commit_hash,
                                   StatusOf(u.resp), <<>>, u.resp.kind))
  IN CASE u.resp.kind = "empty" -> Outcome(calls2, "True", None, 0, FALSE, u.ext)
       [] u.resp.kind = "garbage" -> Outcome(calls2, "False", None, 0, FALSE, u.ext)
       [] u.resp.kind = "array" -> Outcome(calls2, "None", None, 0, TRUE, u.ext)
       [] u.resp.has_status /\ u.resp.status_code \in {200, 201, 202} ->
            Outcome(calls2, "True", None, 0, FALSE, u.ext)
       [] OTHER -> Outcome(calls2, "False", None, 0, FALSE, u.ext)

\* lines 106-118 without the check that the status carries a remoteCommitHash
update_after_status_any_hash(ext, workspace_id, resp, f, calls) ==
  CASE ~(resp.has_status /\ resp.status_code = 200) -> Outcome(calls, "False", None, 0, FALSE, ext)
    [] OTHER -> update_call(ext, workspace_id, resp.text.remoteCommitHash, f, calls)

\* lines 106-118: the status in hand decides whether the update is issued
update_after_status(ext, workspace_id, resp, f, calls) ==
  CASE ~(resp.has_status /\ resp.status_code = 200) -> Outcome(calls, "False", None, 0, FALSE, ext)
    [] resp.text.remoteCommitHash = "" -> Outcome(calls, "False", None, 0, FALSE, ext)
    [] OTHER -> update_call(ext, workspace_id, resp.text.remoteCommitHash, f, calls)

\* update_workspace_from_git going on with the first status after the
\* initializeConnection call, without asking for the status again
update_workspace_from_git_no_retry(ext, workspace_id, f) ==
  LET w == WsOfId(workspace_id)
      s == EnvGitStatus(ext, w, f[1])
      cs == GitStatusCall(w, s.resp)
  IN CASE s.resp.kind = "empty" -> Outcome(<<cs>>, "False", None, 0, FALSE, s.ext)
       [] s.resp.kind = "garbage" -> Outcome(<<cs>>, "False", None, 0, FALSE, s.ext)
       [] s.resp.kind = "array" -> Outcome(<<cs>>, "None", None, 0, TRUE, s.ext)
       [] /\ s.resp.has_status /\ s.resp.status_code = 400
          /\ s.resp.text.errorCode = "WorkspaceGitConnectionNotInitialized" ->
            LET i == EnvGitInit(s.ext, w, f[2])
                ci == Call("git_init", w, "", StatusOf(i.resp), <<>>, i.resp.kind)
            IN update_after_status(i.ext, workspace_id, s.resp, f, <<cs, ci>>)
       [] OTHER -> update_after_status(s.ext, workspace_id, s.resp, f, <<cs>>)

update_workspace_from_git(ext, workspace_id, f) ==
  LET w == WsOfId(workspace_id)
      s == EnvGitStatus(ext, w, f[1])
      cs == GitStatusCall(w, s.resp)
  IN CASE s.resp.kind = "empty" -> Outcome(<<cs>>, "False", None, 0, FALSE, s.ext)
       [] s.resp.kind = "garbage" -> Outcome(<<cs>>, "False", None, 0, FALSE, s.ext)
       [] s.resp.kind = "array" -> Outcome(<<cs>>, "None", None, 0, TRUE, s.ext)
       [] /\ s.resp.has_status /\ s.resp.status_code = 400
          /\ s.resp.text.errorCode = "WorkspaceGitConnectionNotInitialized" ->
            LET i == EnvGitInit(s.ext, w, f[2])
                ci == Call("git_init", w, "", StatusOf(i.resp), <<>>, i.resp.kind)
                t == EnvGitStatus(i.ext, w, f[3])
                ct == GitStatusCall(w, t.resp)
            IN CASE t.resp.kind \in {"empty", "garbage"} ->
                      Outcome(<<cs, ci, ct>>, "False", None, 0, FALSE, t.ext)
                 [] t.resp.kind = "array" -> Outcome(<<cs, ci, ct>>, "None", None, 0, TRUE, t.ext)
                 [] OTHER -> update_after_status(t.ext, workspace_id, t.resp, f, <<cs, ci, ct>>)
       [] OTHER -> update_after_status(s.ext, workspace_id, s.resp, f, <<cs>>)

\* ------------------------------------------------------------------------
\* generate_solution_from_yml_simple.py (the single-file script)
\* ------------------------------------------------------------------------

monolith_create_workspace(ext, workspace_config, f) ==
  LET workspace_name == workspace_config.name
      l == EnvLs(ext, workspace_name, f[1])
      cl == Call("ws_ls", workspace_name, "", l.resp.rc, l.resp.out, l.resp.kind)
  IN IF workspace_exists(l.resp)
     THEN LET g == EnvGetId(l.ext, workspace_name, f[3])
          IN Outcome(<<cl, Call("ws_get", workspace_name, "", g.resp.rc, g.resp.out, g.resp.kind)>>,
                     "None", get_workspace_id(g.resp), 0, FALSE, g.ext)
     ELSE LET c == EnvCreate(l.ext, workspace_name, workspace_config.capacity, f[2])
              cc == Call("ws_create", workspace_name, workspace_config.capacity, c.resp.rc, c.resp.out, c.resp.kind)
              g == EnvGetId(c.ext, workspace_name, f[3])
          IN Outcome(<<cl, cc, Call("ws_get", workspace_name, "", g.resp.rc, g.resp.out, g.resp.kind)>>,
                     "None", get_workspace_id(g.resp), WorkspacePropagationDelay, FALSE, g.ext)

RECURSIVE monolith_assign_loop(_, _, _, _, _, _, _)
monolith_assign_loop(ext, workspace_id, permissions, sg, f, i, calls) ==
  IF i > Len(permissions)
  THEN Outcome(calls, "None", None, PermissionDelay, FALSE, ext)
  ELSE LET permission == permissions[i]
           group_id == GroupId(sg, permission.group)
           a == EnvRolePost(ext, WsOfId(workspace_id), group_id, permission.role, f[i + 1])
           calls2 == Append(calls, Call("role_post", WsOfId(workspace_id), group_id,
                                        StatusOf(a.resp), <<permission.role>>, a.resp.kind))
       IN IF Unloadable(a.resp)
          THEN Outcome(calls2, "None", None, PermissionDelay, TRUE, a.ext)
          ELSE monolith_assign_loop(a.ext, workspace_id, permissions, sg, f, i + 1, calls2)

monolith_assign_permissions(ext, workspace_id, permissions, sg, f) ==
  monolith_assign_loop(ext, workspace_id, permissions, sg, f, 1, <<>>)

monolith_get_or_create_git_connection(ext, f) == connection_lookup(ext, ComputedName, f)

monolith_connect_workspace_to_git(ext, workspace_id, connection_id, f) ==
  LET c == EnvGitConnect(ext, WsOfId(workspace_id), connection_id, f[2])
      cc == Call("git_connect", WsOfId(workspace_id), "", StatusOf(c.resp), connection_id, c.resp.kind)
  IN CASE Unloadable(c.resp) -> Outcome(<<cc>>, "None", None, 0, TRUE, c.ext)
       [] c.resp.has_status /\ c.resp.status_code \in {200, 201} ->
            Outcome(<<cc>>, "True", None, 0, FALSE, c.ext)
       [] OTHER -> Outcome(<<cc>>, "False", None, 0, FALSE, c.ext)

\* ------------------------------------------------------------------------
\* State of a run
\* ------------------------------------------------------------------------

VARIABLES
  script,                \* the entry script that is run
  run,                   \* how many times it has been started
  pc,                    \* the operation main() performs next
  ci,                    \* position in the capacity loop
  wi,                    \* position in the workspace loop
  workspace_id,          \* main()'s workspace_id of the current iteration
  github_connection_id,  \* main()'s cached connection id
  success,               \* main()'s result of connect_workspace_to_git
  ext,                   \* the external system
  log,                   \* the external calls of this run, in order
  last,                  \* the operation performed last
  faults,                \* operations answered other than nominally so far
  completed              \* per workspace: the assign_permissions calls on its id that returned

vars == <<script, run, pc, ci, wi, workspace_id, github_connection_id, success, ext, log, last,
          faults, completed>>

Fresh ==
  [authed |-> FALSE,
   cap |-> [c \in Caps |-> "absent"],
   ws |-> [w \in WsNames |-> FALSE],
   roles |-> [w \in WsNames |-> [p \in Principals |-> "none"]],
   conns |-> <<>>,
   git |-> [w \in WsNames |-> "unbound"]]

Provisioned ==
  [authed |-> FALSE,
   cap |-> [c \in Caps |-> IF c = "c1" THEN "suspended" ELSE "active"],
   ws |-> [w \in WsNames |-> TRUE],
   roles |-> [w \in WsNames |-> [p \in Principals |->
                IF w = "w1" /\ p = "p2" THEN "Viewer" ELSE "none"]],
   conns |-> <<"other", "test_connection">>,
   git |-> [w \in WsNames |-> IF w = "w1" THEN "initialized" ELSE "connected"]]

NoOp == [op |-> "", target |-> "", calls |-> <<>>, ret |-> "None", id |-> None,
         wait |-> 0, raised |-> FALSE, pre |-> Fresh, arg |-> None]

\* The record of an operation just performed.
Done(op, target, arg, o, pre) ==
  [op |-> op, target |-> target, calls |-> o.calls, ret |-> o.ret, id |-> o.id,
   wait |-> o.wait, raised |-> o.raised, pre |-> pre, arg |-> arg]

\* The log entries of an operation's calls; ws is the workspace whose loop
\* iteration issued them ("" outside the workspace loop).
Logged(calls, w) ==
  [i \in 1..Len(calls) |->
     [kind |-> calls[i].kind, target |-> calls[i].target, status |-> calls[i].status, ws |-> w]]

\* The answers the external system may give to the n calls of an operation:
\* nominal ones, or, while the budget lasts, any of `choices`.
NoFaults(n) == [i \in 1..n |-> "none"]
Oracles(n, choices) ==
  IF faults < MaxFaults /\ ext.authed THEN choices ELSE {NoFaults(n)}
Charge(f, n) == IF f = NoFaults(n) THEN faults ELSE faults + 1

AzureFaults == {"none", "exit", "empty", "garbage", "array", "nostatus", "status"}
ApiFaults == {"none", "empty", "garbage", "array", "status"}
StatusFaults == {"none", "empty", "garbage", "array", "status", "nohash", "stateonly"}

\* ------------------------------------------------------------------------
\* Control flow of main()
\* ------------------------------------------------------------------------

\* the workspace the loop is at
CurrentWs == IF script = "feature" THEN FeatureWsName(workspace_types[wi]) ELSE WsConfig[wi].name

\* create_feature_workspaces.get_capacity_for_workspace_type
get_capacity_for_workspace_type(t) ==
  CASE t \in {"processing", "datastores"} -> "c1" [] t = "consumption" -> "c2" [] OTHER -> "None"

WsCount == IF script = "feature" THEN Len(workspace_types) ELSE Len(WsConfig)

\* main() with the suspension loop placed before the workspace loop
GeneratePhases_suspend_first == <<"create_capacity", "suspend_capacity", "create_workspace">>

\* generate_solution_from_yml_simple.main(): its three loops in the order
\* of the source (capacities, workspaces, suspension)
GeneratePhases == <<"create_capacity", "create_workspace", "suspend_capacity">>

\* the loop main() enters after loop p ("done": none is left)
PhaseAfter(p) ==
  LET k == CHOOSE i \in 1..Len(GeneratePhases) : GeneratePhases[i] = p
  IN IF k < Len(GeneratePhases) THEN GeneratePhases[k + 1] ELSE "done"

Enter(p) == [pc |-> p, wi |-> 1, ci |-> 1]

\* the workspace loop's next iteration, or what follows the loop
IterationAt(i) ==
  CASE i > WsCount /\ script \in {"generate", "monolith"} -> Enter(PhaseAfter("create_workspace"))
    [] i > WsCount -> [pc |-> "done", wi |-> i, ci |-> ci]
    [] script = "feature" -> [pc |-> "resume_capacity", wi |-> i, ci |-> ci]
    [] script = "sync" -> [pc |-> "get_workspace_id", wi |-> i, ci |-> ci]
    [] OTHER -> [pc |-> "create_workspace", wi |-> i, ci |-> ci]

\* the end of one iteration of the workspace loop
EndIteration ==
  IF script = "feature"
  THEN [pc |-> "suspend_capacity", wi |-> wi, ci |-> ci]
  ELSE IterationAt(wi + 1)

HasPermissions == script = "feature" \/ WsConfig[wi].has_permissions
WantsGit == script = "feature" \/ WsConfig[wi].connect_to_git_folder

AfterConnection(conn) ==
  IF conn # None THEN [pc |-> "connect_workspace_to_git", wi |-> wi, ci |-> ci] ELSE EndIteration

\* main() asking for the connection at every workspace, whether or not one
\* is already held
AfterPermissions_no_cache(id, conn) ==
  IF WantsGit /\ id # None
  THEN [pc |-> "get_or_create_git_connection", wi |-> wi, ci |-> ci]
  ELSE EndIteration

AfterPermissions(id, conn) ==
  IF WantsGit /\ id # None
  THEN (IF conn = None THEN [pc |-> "get_or_create_git_connection", wi |-> wi, ci |-> ci]
        ELSE AfterConnection(conn))
  ELSE EndIteration

\* main() assigning permissions without looking at the id create_workspace returned
AfterCreate_ignores_id(id) ==
  CASE script = "feature" /\ id = None -> EndIteration
    [] HasPermissions -> [pc |-> "assign_permissions", wi |-> wi, ci |-> ci]
    [] OTHER -> AfterPermissions(id, github_connection_id)

AfterCreate(id) ==
  CASE script = "feature" /\ id = None -> EndIteration
    [] HasPermissions /\ id # None -> [pc |-> "assign_permissions", wi |-> wi, ci |-> ci]
    [] OTHER -> AfterPermissions(id, github_connection_id)

\* an operation of main() has been performed: o is its outcome, nxt what follows
Step(op, target, arg, o, w, nxt, f, n) ==
  /\ ext' = o.ext
  /\ log' = log \o Logged(o.calls, w)
  /\ last' = Done(op, target, arg, o, ext)
  /\ faults' = Charge(f, n)
  /\ pc' = IF o.raised THEN "crashed" ELSE nxt.pc
  /\ wi' = IF o.raised THEN wi ELSE nxt.wi
  /\ ci' = IF o.raised THEN ci ELSE nxt.ci
  /\ UNCHANGED <<script, run>>

\* ------------------------------------------------------------------------
\* fabric_core/auth.py and the operations main() performs
\* ------------------------------------------------------------------------

\* auth(): True iff the login exits 0
auth(ext0, f) ==
  LET a == EnvAuthLogin(ext0, f[1])
  IN Outcome(<<Call("auth_login", "", "", a.resp.rc, <<>>, a.resp.kind)>>,
             IF a.resp.rc # 0 THEN "False" ELSE "True", None, 0, FALSE, a.ext)

\* the single-file script's auth(): returns nothing
monolith_auth(ext0, f) ==
  LET a == EnvAuthLogin(ext0, f[1])
  IN Outcome(<<Call("auth_login", "", "", a.resp.rc, <<>>, a.resp.kind)>>, "None", None, 0, FALSE, a.ext)

\* main(): `if not auth(): return`; the single-file script calls auth() and goes on
proceeds_after_auth(s, ret) == IF s = "monolith" THEN TRUE ELSE ret = "True"

\* resume_capacity(capacity_name, subscription_id, resource_group):
\* one resume POST for the capacity
resume_capacity(ext0, capacity_name, f) ==
  LET r == EnvCapResume(ext0, capacity_name, f[1])
  IN Outcome(<<Call("cap_resume", capacity_name, "", call_azure_api(r.resp), <<>>, r.resp.kind)>>,
             "None", None, 0, FALSE, r.ext)

AfterAuth ==
  IF script \in {"generate", "monolith"} THEN Enter(GeneratePhases[1]) ELSE IterationAt(1)

Auth ==
  /\ pc = "auth"
  /\ \E f \in (IF faults < MaxFaults THEN {<<"none">>, <<"exit">>} ELSE {<<"none">>}) :
       LET o == IF script = "monolith" THEN monolith_auth(ext, f) ELSE auth(ext, f)
       IN /\ Step("auth", "", None, o, "",
                  IF proceeds_after_auth(script, o.ret) THEN AfterAuth
                  ELSE [pc |-> "aborted", wi |-> wi, ci |-> ci], f, 1)
          /\ UNCHANGED <<workspace_id, github_connection_id, success, completed>>

CreateCapacity ==
  /\ pc = "create_capacity"
  /\ \E f \in Oracles(2, {<<a, b>> : a \in AzureFaults, b \in {"none", "empty", "garbage", "array", "status"}}) :
       LET o == create_capacity(ext, CapList[ci], f)
       IN /\ Step("create_capacity", CapList[ci], None, o, "",
                  IF ci < Len(CapList) THEN [pc |-> pc, wi |-> wi, ci |-> ci + 1]
                  ELSE Enter(PhaseAfter("create_capacity")), f, 2)
          /\ UNCHANGED <<workspace_id, github_connection_id, success, completed>>

ResumeCapacity ==
  /\ pc = "resume_capacity"
  /\ \E f \in Oracles(1, {<<a>> : a \in {"none", "garbage", "status"}}) :
       LET c == get_capacity_for_workspace_type(workspace_types[wi])
           o == resume_capacity(ext, c, f)
       IN /\ Step("resume_capacity", c, None, o, CurrentWs,
                  [pc |-> "create_workspace", wi |-> wi, ci |-> ci], f, 1)
          /\ UNCHANGED <<workspace_id, github_connection_id, success, completed>>

WorkspaceConfig ==
  IF script = "feature"
  THEN [name |-> CurrentWs, capacity |-> get_capacity_for_workspace_type(workspace_types[wi])]
  ELSE [name |-> WsConfig[wi].name, capacity |-> WsConfig[wi].capacity]

CreateWorkspace ==
  /\ pc = "create_workspace"
  /\ \E f \in Oracles(3, {<<a, b, c>> : a \in {"none", "exit"}, b \in {"none", "exit"},
                                        c \in {"none", "exit", "blank", "noisy", "uuid_in_error"}}) :
       LET o == IF script = "monolith" THEN monolith_create_workspace(ext, WorkspaceConfig, f)
                ELSE create_workspace(ext, WorkspaceConfig, f)
       IN /\ Step("create_workspace", CurrentWs, None, o, CurrentWs, AfterCreate(o.id), f, 3)
          /\ workspace_id' = o.id
          /\ UNCHANGED <<github_connection_id, success, completed>>

GetWorkspaceId ==
  /\ pc = "get_workspace_id"
  /\ \E f \in Oracles(1, {<<c>> : c \in {"none", "exit", "blank", "noisy", "uuid_in_error"}}) :
       LET g == EnvGetId(ext, CurrentWs, f[1])
           o == Outcome(<<Call("ws_get", CurrentWs, "", g.resp.rc, g.resp.out, g.resp.kind)>>,
                        "None", get_workspace_id(g.resp), 0, FALSE, g.ext)
       IN /\ Step("get_workspace_id", CurrentWs, None, o, CurrentWs,
                  IF o.id # None THEN [pc |-> "update_workspace_from_git", wi |-> wi, ci |-> ci]
                  ELSE IterationAt(wi + 1), f, 1)
          /\ workspace_id' = o.id
          /\ UNCHANGED <<github_connection_id, success, completed>>

Permissions == IF script = "feature" THEN FeaturePermissions ELSE WsConfig[wi].permissions

PostFaults == {"none", "empty", "garbage", "array", "status"}

AssignPermissions ==
  /\ pc = "assign_permissions"
  /\ \E f \in Oracles(4, {<<a, b, c, d>> : a \in {"none", "exit", "garbage", "array", "status", "badentry"},
                                           b \in PostFaults, c \in PostFaults, d \in PostFaults}) :
       LET o == IF script = "monolith"
                THEN monolith_assign_permissions(ext, workspace_id, Permissions, security_groups, f)
                ELSE assign_permissions(ext, workspace_id, Permissions, security_groups, f)
       IN /\ Step("assign_permissions", CurrentWs, workspace_id, o, CurrentWs,
                  AfterPermissions(workspace_id, github_connection_id), f, 4)
          /\ completed' = IF ~o.raised /\ workspace_id = <<WsId(CurrentWs)>>
                          THEN [completed EXCEPT ![CurrentWs] = @ + 1]
                          ELSE completed
          /\ UNCHANGED <<workspace_id, github_connection_id, success>>

GetOrCreateGitConnection ==
  /\ pc = "get_or_create_git_connection"
  /\ \E f \in Oracles(2, {<<a, b>> : a \in ApiFaults, b \in ApiFaults}) :
       LET o == IF script = "monolith" THEN monolith_get_or_create_git_connection(ext, f)
                ELSE get_or_create_git_connection(ext, f)
       IN /\ Step("get_or_create_git_connection", CurrentWs, workspace_id, o, CurrentWs,
                  AfterConnection(o.id), f, 2)
          /\ github_connection_id' = o.id
          /\ UNCHANGED <<workspace_id, success, completed>>

ConnectWorkspaceToGit ==
  /\ pc = "connect_workspace_to_git"
  /\ \E f \in Oracles(2, {<<a, b>> : a \in StatusFaults, b \in ApiFaults}) :
       LET o == IF script = "monolith"
                THEN monolith_connect_workspace_to_git(ext, workspace_id, github_connection_id, f)
                ELSE connect_workspace_to_git(ext, workspace_id, github_connection_id, f)
       IN /\ Step("connect_workspace_to_git", CurrentWs, workspace_id, o, CurrentWs,
                  IF script = "feature" /\ o.ret = "True"
                  THEN [pc |-> "initialize_connection", wi |-> wi, ci |-> ci]
                  ELSE EndIteration, f, 2)
          /\ success' = (o.ret = "True")
          /\ UNCHANGED <<workspace_id, github_connection_id, completed>>

\* create_feature_workspaces.main(), lines 133-138: the initializeConnection call
InitializeConnection ==
  /\ pc = "initialize_connection"
  /\ \E f \in Oracles(1, {<<a>> : a \in {"none", "status"}}) :
       LET i == EnvGitInit(ext, WsOfId(workspace_id), f[1])
           o == Outcome(<<Call("git_init", WsOfId(workspace_id), "", StatusOf(i.resp), <<>>, i.resp.kind)>>,
                        "None", None, 0, FALSE, i.ext)
       IN /\ Step("initialize_connection", CurrentWs, workspace_id, o, CurrentWs,
                  [pc |-> "update_workspace_from_git", wi |-> wi, ci |-> ci], f, 1)
          /\ UNCHANGED <<workspace_id, github_connection_id, success, completed>>

UpdateFaults == {"none", "accepted_empty", "garbage", "array", "status"}

UpdateWorkspaceFromGit ==
  /\ pc = "update_workspace_from_git"
  /\ \E f \in Oracles(4, {<<a, b, c, d>> : a \in StatusFaults, b \in {"none", "status"},
                                           c \in StatusFaults, d \in UpdateFaults}) :
       LET o == update_workspace_from_git(ext, workspace_id, f)
       IN /\ Step("update_workspace_from_git", CurrentWs, workspace_id, o, CurrentWs,
                  EndIteration, f, 4)
          /\ UNCHANGED <<workspace_id, github_connection_id, success, completed>>

SuspendTarget ==
  IF script = "feature" THEN get_capacity_for_workspace_type(workspace_types[wi]) ELSE CapList[ci]

SuspendFaults == {"none", "garbage", "status"}

SuspendCapacity ==
  /\ pc = "suspend_capacity"
  /\ \E f \in Oracles(5, [1..SuspendAttempts -> SuspendFaults]) :
       LET o == suspend_capacity(ext, SuspendTarget, f)
       IN /\ Step("suspend_capacity", SuspendTarget, None, o,
                  IF script = "feature" THEN CurrentWs ELSE "",
                  CASE script = "feature" -> IterationAt(wi + 1)
                    [] ci < Len(CapList) -> [pc |-> pc, wi |-> wi, ci |-> ci + 1]
                    [] OTHER -> Enter(PhaseAfter("suspend_capacity")), f, 5)
          /\ UNCHANGED <<workspace_id, github_connection_id, success, completed>>

\* The script is started again (a re-run of the CI job) against the external
\* system as the previous run left it.
Rerun ==
  /\ pc \in {"done", "aborted", "crashed"}
  /\ run < MaxRuns
  /\ run' = run + 1
  /\ pc' = "auth"
  /\ ci' = 1
  /\ wi' = 1
  /\ workspace_id' = None
  /\ github_connection_id' = None
  /\ success' = FALSE
  /\ log' = <<>>
  /\ last' = NoOp
  /\ UNCHANGED <<script, ext, faults, completed>>

Init ==
  /\ script \in Scripts
  /\ run = 1
  /\ pc = "auth"
  /\ ci = 1
  /\ wi = 1
  /\ workspace_id = None
  /\ github_connection_id = None
  /\ success = FALSE
  /\ ext \in {Fresh, Provisioned}
  /\ log = <<>>
  /\ last = NoOp
  /\ faults = 0
  /\ completed = [w \in WsNames |-> 0]

Next ==
  \/ Auth
  \/ CreateCapacity
  \/ ResumeCapacity
  \/ CreateWorkspace
  \/ GetWorkspaceId
  \/ AssignPermissions
  \/ GetOrCreateGitConnection
  \/ ConnectWorkspaceToGit
  \/ InitializeConnection
  \/ UpdateWorkspaceFromGit
  \/ SuspendCapacity
  \/ Rerun

Spec == Init /\ [][Next]_vars

\* ------------------------------------------------------------------------
\* Properties
\* ------------------------------------------------------------------------

Kinds(ks) == {i \in 1..Len(log) : log[i].kind \in ks}

\* the login of this run succeeded
AuthSucceeded == \E i \in Kinds({"auth_login"}) : log[i].status = 0

\* the workspace operations: create, role assignment, git connect, git update
WsOps == {"ws_create", "role_post", "git_connect", "git_update"}

Finished == pc \in {"done", "aborted", "crashed"}

\* the failures the operation performed last met are of the kinds C1 names:
\* a non-zero exit, an empty or non-JSON body, an unrecognised status code
NamedFailuresOnly == \A i \in 1..Len(last.calls) : last.calls[i].body # "array"

\* C1: in the generate driver, once the login has succeeded, no failing
\* external call (non-zero exit, empty or malformed body, unrecognised
\* status) ends the run: the run never dies of an exception, and when it is
\* over a suspend call has been issued for every configured capacity.
C1_RunSurvivesFailures ==
  (script = "generate" /\ AuthSucceeded /\ NamedFailuresOnly) =>
     /\ pc # "crashed"
     /\ (Finished => \A k \in 1..Len(CapList) :
                        \E i \in Kinds({"cap_suspend"}) : log[i].target = CapList[k])

\* C2: in every entry script a failed login is the last external call of the run.
C2_NothingAfterFailedAuth ==
  \A i \in Kinds({"auth_login"}) : log[i].status # 0 => i = Len(log)

\* C3 as stated: in every driver no workspace operation follows a suspend call.
C3_NoWorkspaceOpAfterSuspend ==
  \A i \in Kinds({"cap_suspend"}) : \A j \in Kinds(WsOps) : j < i

\* C3 as amended: a workspace operation follows a suspend call only in
\* create_feature_workspaces, and there only as an operation of a later
\* iteration than the one that issued the suspend call.
C3_SuspendEndsItsIteration ==
  \A i \in Kinds({"cap_suspend"}) : \A j \in Kinds(WsOps) :
     i < j => (script = "feature" /\ log[i].ws # log[j].ws)

\* a finished generate run that created a workspace, connected it to git and
\* then suspended a capacity
C3_Witness ==
  /\ script \in {"generate", "monolith"}
  /\ pc = "done"
  /\ \E i \in Kinds({"cap_suspend"}) :
       /\ \E j \in Kinds({"ws_create"}) : j < i
       /\ \E j \in Kinds({"git_connect"}) : j < i

\* the capacity the workspace of a loop iteration is bound to
CapacityOf(w) ==
  IF script = "feature"
  THEN get_capacity_for_workspace_type(
         workspace_types[CHOOSE k \in 1..Len(workspace_types) : FeatureWsName(workspace_types[k]) = w])
  ELSE WsConfig[CHOOSE k \in 1..Len(WsConfig) : WsConfig[k].name = w].capacity

\* C4: in every entry script a workspace operation is preceded by a create
\* or resume call for the capacity the workspace is bound to.
C4_CapacityBeforeWorkspace ==
  \A j \in Kinds(WsOps) :
     \E i \in Kinds({"cap_put", "cap_resume"}) : i < j /\ log[i].target = CapacityOf(log[j].ws)

\* the calls of the operation just performed that are of the kinds ks
CallsOf(ks) == {i \in 1..Len(last.calls) : last.calls[i].kind \in ks}

\* C5: suspend_capacity issues at most 5 suspend calls, stops at the first
\* that returns 200 or 202 and returns True, and returns False without
\* raising when all 5 return anything else (the decoder's 0 included).
C5_SuspendAtMostFive ==
  last.op = "suspend_capacity" =>
    LET n == Len(last.calls) IN
    /\ n \in 1..5
    /\ \A i \in 1..n : last.calls[i].kind = "cap_suspend" /\ last.calls[i].target = last.target
    /\ \A i \in 1..(n - 1) : last.calls[i].status \notin {200, 202}
    /\ ~last.raised
    /\ last.ret = (IF last.calls[n].status \in {200, 202} THEN "True" ELSE "False")
    /\ (last.ret = "False" => n = 5)

\* five failed attempts, the last of them undecodable, and False returned
C5_Witness ==
  /\ last.op = "suspend_capacity"
  /\ last.ret = "False"
  /\ Len(last.calls) = 5
  /\ last.calls[5].status = 0
  /\ \E i \in 1..4 : last.calls[i].status = 500

\* C6: create_capacity on a capacity whose existence check returns 200 issues
\* exactly one resume POST, no create PUT, and returns without waiting.
C6_ExistingCapacityIsResumed ==
  (last.op = "create_capacity" /\ last.calls[1].kind = "cap_get" /\ last.calls[1].status = 200) =>
    /\ Len(last.calls) = 2
    /\ last.calls[2].kind = "cap_resume"
    /\ last.calls[2].target = last.target
    /\ CallsOf({"cap_put"}) = {}
    /\ last.wait = 0

C6_Witness ==
  /\ last.op = "create_capacity"
  /\ last.pre.cap[last.target] = "suspended"
  /\ last.calls[1].status = 200
  /\ CallsOf({"cap_resume"}) = {2}

\* C7: create_capacity on an absent capacity issues exactly one create PUT
\* and no resume call, and waits 40 iff the PUT returned 200 or 201.
C7_AbsentCapacityIsCreated ==
  (last.op = "create_capacity" /\ last.pre.cap[last.target] = "absent") =>
    /\ CallsOf({"cap_put"}) = {2}
    /\ Len(last.calls) = 2
    /\ last.calls[2].target = last.target
    /\ CallsOf({"cap_resume"}) = {}
    /\ last.wait = (IF last.calls[2].status \in {200, 201} THEN 40 ELSE 0)

C7_Witness ==
  /\ last.op = "create_capacity"
  /\ last.pre.cap[last.target] = "absent"
  /\ last.calls[2].kind = "cap_put"
  /\ last.calls[2].status = 201
  /\ last.wait = 40

\* C8 as stated: create_workspace on a workspace that exists issues no create
\* call and returns the id the external system assigned, on every invocation.
C8_ExistingWorkspaceSameId ==
  (last.op = "create_workspace" /\ last.pre.ws[last.target]) =>
    /\ CallsOf({"ws_create"}) = {}
    /\ last.id = <<WsId(last.target)>>

\* C8 as amended: when the existence check exits 0, create_workspace issues
\* no create call, only the id query, and on every invocation whose id query
\* exits 0 and prints the workspace's id it returns that id.
C8_FoundWorkspaceSameId ==
  (last.op = "create_workspace" /\ last.calls[1].kind = "ws_ls" /\ last.calls[1].status = 0) =>
    /\ CallsOf({"ws_create"}) = {}
    /\ CallsOf({"ws_get"}) = {2}
    /\ Len(last.calls) = 2
    /\ (last.calls[2].status = 0 /\ last.calls[2].out = <<WsId(last.target), "sp">>)
         => last.id = <<WsId(last.target)>>

\* a second run finds the workspace and gets its id again
C8_Witness ==
  /\ run = 2
  /\ last.op = "create_workspace"
  /\ last.pre.ws[last.target]
  /\ CallsOf({"ws_create"}) = {}
  /\ last.calls[2].out = <<WsId(last.target), "sp">>
  /\ last.id = <<WsId(last.target)>>

\* the desired (group, role) list of a workspace, and the principals it names
PermissionsOf(w) ==
  IF script = "feature" THEN FeaturePermissions
  ELSE WsConfig[CHOOSE k \in 1..Len(WsConfig) : WsConfig[k].name = w].permissions

DesiredIds(w) ==
  {GroupId(security_groups, PermissionsOf(w)[i].group) : i \in 1..Len(PermissionsOf(w))}

\* fabric_core's assign_permissions has returned for the second time (or a
\* later one) on this workspace's id
SecondAssign ==
  /\ script \in {"generate", "feature"}
  /\ last.op = "assign_permissions"
  /\ ~last.raised
  /\ last.arg = <<WsId(last.target)>>
  /\ completed[last.target] >= 2

\* C9 as stated: a second assign_permissions with the same desired list (all
\* of whose groups resolve) issues no role-assignment POST.
C9_SecondAssignPostsNothing ==
  (SecondAssign /\ DesiredIds(last.target) \subseteq Principals) =>
     CallsOf({"role_post"}) = {}

\* the principals the role-assignment query listed ("?": an entry without one)
Listed == {last.calls[1].out[i] : i \in 1..Len(last.calls[1].out)}

\* C9 as amended: assign_permissions issues no role-assignment POST whenever
\* its role-assignment query exits 0 and returns 200 with a well-formed listing holding
\* every principal of the desired list, as on a second call once the first
\* call's POSTs have succeeded.
C9_SatisfiedAssignPostsNothing ==
  ( /\ script \in {"generate", "feature"}
    /\ last.op = "assign_permissions"
    /\ last.calls[1].kind = "role_get"
    /\ last.calls[1].status = 200
    /\ "?" \notin Listed
    /\ DesiredIds(last.target) \subseteq Listed ) =>
     CallsOf({"role_post"}) = {}

\* the second call on w1, whose first call posted, posts nothing
C9_Witness ==
  /\ SecondAssign
  /\ script = "generate"
  /\ last.target = "w1"
  /\ last.pre.roles["w1"]["p1"] = "Admin"
  /\ last.calls[1].status = 200
  /\ Listed = {"p1", "p2"}
  /\ CallsOf({"role_post"}) = {}

\* C10: assign_permissions (either variant) issues no mutating call for a
\* principal that held a role on the workspace when it was called, and the
\* role-assignment POST is the only mutating call it issues.
C10_NoPostForRoleHolder ==
  (last.op = "assign_permissions" /\ last.arg = <<WsId(last.target)>>) =>
    /\ \A i \in 1..Len(last.calls) : last.calls[i].kind \in {"role_get", "role_post"}
    /\ \A i \in CallsOf({"role_post"}) :
         last.calls[i].arg \in Principals => last.pre.roles[last.target][last.calls[i].arg] = "none"

\* C11: for a desired pair whose group is not a key of the lookup table,
\* fabric_core's assign_permissions issues no role-assignment call (it fails the pair with a
\* missing-principal condition): no POST carries the null principal.
C11_NoPostForUnknownGroup ==
  (last.op = "assign_permissions" /\ script # "monolith") =>
    \A i \in CallsOf({"role_post"}) : last.calls[i].arg # NoPrincipal

\* the first git-status answer of update_workspace_from_git said the
\* connection is not initialized
FirstStatusUninitialized ==
  /\ last.op = "update_workspace_from_git"
  /\ last.calls[1].kind = "git_status"
  /\ last.calls[1].status = 400
  /\ last.calls[1].arg = "WorkspaceGitConnectionNotInitialized"

LastStatus == last.calls[CHOOSE i \in CallsOf({"git_status"}) : \A j \in CallsOf({"git_status"}) : j <= i]

C14_UpdateResultFromResponse ==
  (last.op = "update_workspace_from_git" /\ CallsOf({"git_update"}) # {}) =>
    LET u == last.calls[Len(last.calls)] IN
    /\ u.kind = "git_update"
    /\ ~last.raised
    /\ last.ret = (IF u.body = "empty" \/ (u.body = "object" /\ u.status \in {200, 201, 202})
                   THEN "True" ELSE "False")

\* the git status of the workspace shows a binding: the answer
\* connect_workspace_to_git read, or, for a call that did not ask, the answer
\* the service had for it
StatusShowsBinding ==
  IF CallsOf({"git_status"}) # {}
  THEN \E i \in CallsOf({"git_status"}) : last.calls[i].out[1] # "" \/ last.calls[i].out[2] # ""
  ELSE last.pre.git[last.target] \in {"initialized", "synced"}

\* C15: connect_workspace_to_git (either variant) issues no connect call and
\* returns True whenever the git status shows a non-empty connection state or
\* remote commit hash; otherwise it issues exactly one connect call and
\* returns True exactly when that call's status is 200 or 201.
C15_ConnectOnlyWhenUnbound ==
  (last.op = "connect_workspace_to_git" /\ NamedFailuresOnly) =>
    /\ StatusShowsBinding => (CallsOf({"git_connect"}) = {} /\ last.ret = "True")
    /\ ~StatusShowsBinding =>
         /\ CallsOf({"git_connect"}) = {Len(last.calls)}
         /\ last.ret = (IF last.calls[Len(last.calls)].status \in {200, 201} THEN "True" ELSE "False")

\* the connection calls of the run so far, and the creations that succeeded
ConnCalls == Kinds({"conn_list", "conn_create"})
ConnCreated == {i \in Kinds({"conn_create"}) : log[i].status \in {200, 201}}

\* C16: within one run at most one connection is created, and once a
\* connection id has been obtained it is kept for every later workspace and
\* no further connection list or create call is issued in that run.
C16_OneConnectionPerRun ==
  /\ [](Cardinality(ConnCreated) <= 1)
  /\ [][(github_connection_id # None /\ run' = run) =>
          (github_connection_id' = github_connection_id /\ ConnCalls' = ConnCalls)]_vars

\* the second workspace is connected with the connection the first one's
\* iteration created, and the connections were listed once
C16_Witness ==
  /\ last.op = "connect_workspace_to_git"
  /\ last.target = "w2"
  /\ Cardinality(ConnCreated) = 1
  /\ Cardinality(Kinds({"conn_list"})) = 1
  /\ \E i \in CallsOf({"git_connect"}) : last.calls[i].out = github_connection_id
  /\ \E i \in Kinds({"git_connect"}) : log[i].ws = "w1"

\* C17: after a create_workspace that returned null the driver issues no
\* role-assignment, connection or git call for that workspace and moves on
\* to the next workspace (or to what follows the workspace loop).
C17_NullIdSkipsWorkspace ==
  (last.op = "create_workspace" /\ last.id = None /\ ~last.raised) =>
    /\ pc \in {"create_workspace", "resume_capacity", "suspend_capacity", "done"}
    /\ pc \in {"create_workspace", "resume_capacity"} => CurrentWs # last.target
    /\ \A i \in Kinds({"role_get", "role_post", "conn_list", "conn_create",
                       "git_status", "git_connect", "git_init", "git_update"}) :
         log[i].ws # last.target

\* the create call of the first workspace failed and the loop is at the second
C17_Witness ==
  /\ last.op = "create_workspace"
  /\ last.id = None
  /\ \E i \in CallsOf({"ws_create"}) : last.calls[i].status # 0
  /\ last.target = "w1"
  /\ pc = "create_workspace"
  /\ CurrentWs = "w2"

\* C18: get_or_create_git_connection (either variant) issues the create call
\* only if the listing holds no connection named GitHub-<owner>-<repository>;
\* if one is listed it returns the first such connection's id, creating nothing.
C18_MatchByComputedName ==
  ( /\ last.op = "get_or_create_git_connection"
    /\ last.calls[1].kind = "conn_list"
    /\ last.calls[1].status = 200
    /\ ComputedName \in ConnNames(last.pre) ) =>
      /\ CallsOf({"conn_create"}) = {}
      /\ last.id = <<ConnId(ComputedName)>>

\* C19: call_azure_api never raises: for an output that is empty, not JSON
\* or JSON that is not an object it returns status 0, and its callers take 0
\* for a failure: capacity_exists is false (the create PUT follows), a create
\* is not confirmed (no propagation wait), a suspend attempt has failed.
C19_SentinelIsFailure ==
  last.op \in {"create_capacity", "suspend_capacity"} =>
    /\ ~last.raised
    /\ \A i \in 1..Len(last.calls) : last.calls[i].body # "object" => last.calls[i].status = 0
    /\ \A i \in CallsOf({"cap_get"}) :
         last.calls[i].status = 0 => (Len(last.calls) = i + 1 /\ last.calls[i + 1].kind = "cap_put")
    /\ \A i \in CallsOf({"cap_put"}) : last.calls[i].status = 0 => last.wait = 0
    /\ \A i \in CallsOf({"cap_suspend"}) :
         last.calls[i].status = 0 =>
           IF i < 5 THEN Len(last.calls) > i ELSE (i = Len(last.calls) /\ last.ret = "False")

\* an existence check answered by JSON that is not an object, then a create
\* answered by nothing
C19_Witness ==
  /\ last.op = "create_capacity"
  /\ last.calls[1].body = "array"
  /\ last.calls[1].status = 0
  /\ last.calls[2].kind = "cap_put"
  /\ last.calls[2].body = "empty"
  /\ last.wait = 0
  /\ ~last.raised

\* the attempts of the suspend_capacity call just performed that failed
FailedAttempts == {i \in CallsOf({"cap_suspend"}) : last.calls[i].status \notin {200, 202}}

\* C20: in suspend_capacity every attempt that does not return 200/202 is
\* followed by a wait of 60 and a successful one by none: the total wait is
\* 60 times the number of failed attempts, 300 when all 5 fail.
C20_FixedBackoff ==
  last.op = "suspend_capacity" =>
    /\ last.wait = 60 * Cardinality(FailedAttempts)
    /\ last.ret = "False" => last.wait = 300

\* two failed attempts, then a successful one: 120 waited
C20_Witness ==
  /\ last.op = "suspend_capacity"
  /\ last.ret = "True"
  /\ Len(last.calls) = 3
  /\ last.wait = 120

\* the id query of the operation just performed: get_workspace_id is the
\* last thing create_workspace does and all the sync driver's step does
IdQuery == last.calls[Len(last.calls)]

IdQueried ==
  /\ last.op \in {"create_workspace", "get_workspace_id"}
  /\ last.calls # <<>>
  /\ IdQuery.kind = "ws_get"

\* the places of a text that hold an 8-4-4-4-12 hex group, in either case
UuidShaped(out) == {i \in 1..Len(out) : out[i] \in {"u1", "u2", "U1", "U2"}}

FirstUuid(out) == out[CHOOSE i \in UuidShaped(out) : \A j \in UuidShaped(out) : i <= j]

\* C21 as stated: get_workspace_id returns the query's value when the query
\* exits 0 with non-empty output; otherwise it returns the first UUID-shaped
\* substring of the output, as the output holds it, and null when there is
\* none.
C21_IdIsFirstUuidOfOutput ==
  IdQueried =>
    IF IdQuery.status = 0 /\ strip(IdQuery.out) # <<>>
    THEN last.id = strip(IdQuery.out)
    ELSE IF UuidShaped(IdQuery.out) = {} THEN last.id = None
         ELSE last.id = <<FirstUuid(IdQuery.out)>>

\* C21 as amended: get_workspace_id returns the query's stripped output when
\* the query exits 0 and that output is not blank; otherwise it returns the
\* lower-case form of the first UUID-shaped substring (hex digits of either
\* case) of the output, and null when there is none.
C21_IdIsLoweredFirstUuid ==
  IdQueried =>
    IF IdQuery.status = 0 /\ strip(IdQuery.out) # <<>>
    THEN last.id = strip(IdQuery.out)
    ELSE IF UuidShaped(IdQuery.out) = {} THEN last.id = None
         ELSE last.id = lower(<<FirstUuid(IdQuery.out)>>)

\* a failed query whose output holds the id in upper case before another id
C21_Witness ==
  /\ IdQueried
  /\ IdQuery.status = 1
  /\ IdQuery.out = <<"txt", "U1", "txt", "u2">>
  /\ last.id = <<"u1">>

\* C22: within one assign_permissions invocation (fabric_core) at most one
\* role-assignment POST is issued per principal id, whatever the desired
\* list: also when it names a group twice or names several groups that
\* resolve to the same principal.
C22_OnePostPerPrincipal ==
  (last.op = "assign_permissions" /\ script # "monolith") =>
    \A i, j \in CallsOf({"role_post"}) :
       last.calls[i].arg = last.calls[j].arg => i = j

====
